---- MODULE Spec2Model ----
(***************************************************************************)
(* Model of the MandelAgol transit-model wrapper (src/src/mandelagol.py).  *)
(*                                                                         *)
(* One model instance is followed through construction (__init__), direct  *)
(* evaluation (__call__), orbit evaluation (evaluate) and assignments to   *)
(* its public table parameters (klims, nk, nz).  An instance is a set of   *)
(* defined attributes (attrs) plus their values; reading an attribute that *)
(* was never assigned is Python's AttributeError.                          *)
(*                                                                         *)
(* Numbers are fixed point integers: lengths in tenths of a stellar radius *)
(* (RS = 1.0), flux in thousandths (One = 1.0).  A flux value is an exact  *)
(* fraction <<num, den>> in lowest terms, so that a mean is a mean.        *)
(*                                                                         *)
(* The base class TransitModel and the numerical kernels (mandelagol_f,    *)
(* orbits_f) live outside mandelagol.py; they are modelled after the       *)
(* design document, in small integer arithmetic.                           *)
(*                                                                         *)
(* A behaviour follows one instance: the constructor is called until a     *)
(* call succeeds, and the instance it returns is then evaluated.           *)
(***************************************************************************)
EXTENDS Integers, Sequences, FiniteSets, TLC

VARIABLES
    pc,        \* "none" | "ready" | "failed": life cycle of the instance
    err,       \* exception that ended construction ("" when none)
    args,      \* arguments of the latest constructor call
    attrs,     \* names of the attributes the instance has
    nldc, lerp, ss, nss, npt,      \* TransitModel fields
    ed, le, ld, kt, zt,            \* interpolation table
    klims, nk, nz,                 \* recorded table parameters
    eval_nolerp, eval_lerp, eval,  \* self._eval_nolerp, self._eval_lerp, self._eval
    last       \* record of the latest evaluation call and what it returned

vars == <<pc, err, args, attrs, nldc, lerp, ss, nss, npt,
          ed, le, ld, kt, zt, klims, nk, nz,
          eval_nolerp, eval_lerp, eval, last>>

table == <<ed, le, ld, kt, zt>>

----------------------------------------------------------------------------
(* Bounds and input sets *)

MaxPts == 2                         \* length of an observation series

RS == 10                            \* stellar radius, in length units
One == 1000                         \* flux of the unocculted star
ZStep == 5                          \* projected distance covered per time unit
ExpTime == 1                        \* exposure time, in time units

NldcChoices == 0 .. 3
SupersamplingChoices == {0, 1, 2}
TableChoices == { [klims |-> <<1, 3>>, nk |-> 2, nz |-> 3],
                  [klims |-> <<2, 4>>, nk |-> 3, nz |-> 3] }
KChoices == {2, 5}
T0Choices == {0}
TStarts == {0, 2}
UChoices == { [ndim |-> 1, c |-> << <<2, 1>> >>],
              [ndim |-> 2, c |-> << <<2, 1>> >>],
              [ndim |-> 2, c |-> << <<2, 1>>, <<0, 3>> >>] }

TimeSeries(s, n) == [j \in 1 .. n |-> s + j - 1]
TInputs == {TimeSeries(s, MaxPts) : s \in TStarts}
ZInputs == {[j \in 1 .. MaxPts |-> ZStep * (s + j - 1)] : s \in TStarts}

----------------------------------------------------------------------------
(* Exact fractions *)

Abs(x) == IF x < 0 THEN -x ELSE x
Min(a, b) == IF a < b THEN a ELSE b

RECURSIVE GCD(_, _)
GCD(a, b) == IF b = 0 THEN a ELSE GCD(b, a % b)

Frac(n, d) == LET g == GCD(Abs(n), d) IN <<n \div g, d \div g>>

AddFrac(a, b) == Frac(a[1] * b[2] + b[1] * a[2], a[2] * b[2])

RECURSIVE SumFrac(_)
SumFrac(s) == IF s = <<>> THEN <<0, 1>> ELSE AddFrac(Head(s), SumFrac(Tail(s)))

\* numpy mean of a one-dimensional array
Mean(s) == LET t == SumFrac(s) IN Frac(t[1], t[2] * Len(s))

----------------------------------------------------------------------------
(* Numerical kernels (mandelagol_f, orbits_f) *)

\* Occulted-area term of a planet of radius k at distance z: the three
\* regimes no overlap, full overlap, partial overlap.
Ed(k, z) ==
    IF z >= RS + k THEN 0
    ELSE IF z <= RS - k THEN k * k
    ELSE (k * (RS + k - z)) \div 2

\* Linear and quadratic limb-darkening terms.
Le(k, z) == (Ed(k, z) * Min(z, RS)) \div RS
Ld(k, z) == (Ed(k, z) * Min(z, RS) * Min(z, RS)) \div (RS * RS)

\* Recombination of the three terms with the coefficients (u1, u2).
QuadFlux(e, l1, l2, u) == One - 4 * e + u[1] * l1 + u[2] * l2

ExactQuad(z, k, u) == QuadFlux(Ed(k, z), Le(k, z), Ld(k, z), u)
ExactUniform(z, k) == One - 4 * Ed(k, z)

\* ma.eval_uniform(z, k, c, nthr): one value per sample.
EvalUniform(z, k) ==
    [ndim |-> 1, v |-> [j \in 1 .. Len(z) |-> Frac(ExactUniform(z[j], k), 1)]]

\* ma.eval_quad_multiband(z, k, u, c, nthr): u has shape (2, bands); the
\* result has one row per sample and one column per band.
EvalQuadMultiband(z, k, u) ==
    [ndim |-> 2,
     v |-> [j \in 1 .. Len(z) |->
              [b \in 1 .. Len(u) |-> Frac(ExactQuad(z[j], k, u[b]), 1)]]]

\* ma.calculate_interpolation_tables(kmin, kmax, nk, nz, nthr)
CalculateInterpolationTables(kmin, kmax, n_k, n_z) ==
    LET ktab == [i \in 1 .. n_k |-> kmin + ((i - 1) * (kmax - kmin)) \div (n_k - 1)]
        ztab == [j \in 1 .. n_z |-> ((j - 1) * (RS + kmax)) \div (n_z - 1)]
    IN  [ed |-> [i \in 1 .. n_k |-> [j \in 1 .. n_z |-> Ed(ktab[i], ztab[j])]],
         le |-> [i \in 1 .. n_k |-> [j \in 1 .. n_z |-> Le(ktab[i], ztab[j])]],
         ld |-> [i \in 1 .. n_k |-> [j \in 1 .. n_z |-> Ld(ktab[i], ztab[j])]],
         kt |-> ktab,
         zt |-> ztab]

\* Whether the sample (z, k) lies on the grid spanned by the knots.
InTable(z, k, ktab, ztab) ==
    /\ Len(ktab) >= 2 /\ Len(ztab) >= 2
    /\ ktab[1] <= k /\ k <= ktab[Len(ktab)]
    /\ 0 <= z /\ z <= ztab[Len(ztab)]

\* Index of the cell of the knot array t that holds x.
Cell(t, x) ==
    LET below == {i \in 1 .. Len(t) - 1 : t[i] <= x}
    IN  IF below = {} THEN 1 ELSE CHOOSE i \in below : \A m \in below : m <= i

\* Bilinear interpolation of grid g at (k, z).
Bilerp(g, ktab, ztab, k, z) ==
    LET i  == Cell(ktab, k)
        j  == Cell(ztab, z)
        dk == ktab[i + 1] - ktab[i]
        dz == ztab[j + 1] - ztab[j]
        a  == k - ktab[i]
        b  == z - ztab[j]
    IN  ( g[i][j] * (dk - a) * (dz - b) + g[i + 1][j] * a * (dz - b)
        + g[i][j + 1] * (dk - a) * b + g[i + 1][j + 1] * a * b ) \div (dk * dz)

\* One sample of the interpolated model: off the grid the exact model is
\* evaluated instead.
BilerpSample(z, k, u, edt, ldt, let, ktab, ztab) ==
    IF InTable(z, k, ktab, ztab)
    THEN QuadFlux(Bilerp(edt, ktab, ztab, k, z), Bilerp(let, ktab, ztab, k, z),
                  Bilerp(ldt, ktab, ztab, k, z), u)
    ELSE ExactQuad(z, k, u)

\* ma.eval_quad_bilerp(z, k, u, c, nthr, ed, ld, le, kt, zt)
EvalQuadBilerp(z, k, u, edt, ldt, let, ktab, ztab) ==
    [ndim |-> 2,
     v |-> [j \in 1 .. Len(z) |->
              [b \in 1 .. Len(u) |->
                 Frac(BilerpSample(z[j], k, u[b], edt, ldt, let, ktab, ztab), 1)]]]

----------------------------------------------------------------------------
(* numpy array operations used by the wrapper *)

\* Row-major list of the elements of an array.
RECURSIVE Concat(_)
Concat(rows) == IF rows = <<>> THEN <<>> ELSE Head(rows) \o Concat(Tail(rows))

Flat(a) == IF a.ndim = 1 THEN a.v ELSE Concat(a.v)

\* flux.ravel()
Ravel(a) == [ndim |-> 1, v |-> Flat(a)]

\* Variant of Reshape: the elements are laid out column by column.
ReshapeColumnMajor(a, rows, cols) ==
    LET flat == Flat(a)
    IN  [ndim |-> 2,
         v |-> [i \in 1 .. rows |-> [j \in 1 .. cols |-> flat[(j - 1) * rows + i]]]]

\* flux.reshape((rows, cols)): defined when the sizes agree (numpy raises
\* ValueError otherwise); elements are laid out row by row.
CanReshape(a, rows, cols) == Len(Flat(a)) = rows * cols

Reshape(a, rows, cols) ==
    LET flat == Flat(a)
    IN  [ndim |-> 2,
         v |-> [i \in 1 .. rows |-> [j \in 1 .. cols |-> flat[(i - 1) * cols + j]]]]

\* a.mean(1) of a two-dimensional array
MeanAxis1(a) == [ndim |-> 1, v |-> [i \in 1 .. Len(a.v) |-> Mean(a.v[i])]]

----------------------------------------------------------------------------
(* TransitModel (base class) *)

\* Supersampling is in effect for a factor above one.
SsOn(supersampling) == supersampling > 1

\* Sub-sample times of one exposure, as numerators over 2 * n: n points
\* spread evenly over the exposure centred on t.
SubTimes(t, n) == [i \in 1 .. n |-> 2 * n * t + (2 * i - 1 - n) * ExpTime]

\* Projected distance at a time given as a numerator over den.
ZAt(tnum, den, t0) == (ZStep * Abs(tnum - den * t0)) \div den

\* self._calculate_z(t, t0, p, a, i, e, w, lerp_z): one distance per time,
\* or per sub-sample time when supersampling is in effect.
CalculateZ(t, t0, s_on, n) ==
    IF s_on
    THEN Concat([j \in 1 .. Len(t) |->
                   [i \in 1 .. n |-> ZAt(SubTimes(t[j], n)[i], 2 * n, t0)]])
    ELSE [j \in 1 .. Len(t) |-> ZAt(t[j], 1, t0)]

----------------------------------------------------------------------------
(* MandelAgol *)

BaseAttrs == {"nldc", "nthr", "lerp", "ss", "nss", "exptime"}
TableAttrs == {"ed", "le", "ld", "kt", "zt"}
ParamAttrs == {"klims", "nk", "nz"}

NoFlux == [ndim |-> 1, v |-> <<>>]
NoCall == [op |-> "none", update |-> FALSE, t |-> <<>>, z |-> <<>>, k |-> 0,
           u |-> [ndim |-> 1, c |-> <<>>], status |-> "", raw |-> NoFlux,
           ret |-> NoFlux, result |-> NoFlux, pars |-> <<>>]
NoTable == [ed |-> <<>>, le |-> <<>>, ld |-> <<>>, kt |-> <<>>, zt |-> <<>>,
            klims |-> <<>>, nk |-> 0, nz |-> 0]

\* Variant of Supported: the linear law (one coefficient) is let through.
SupportedWithLinear(n) == n = 0 \/ n = 1 \/ n = 2

\* __init__, line 55: the laws the model supports.
Supported(n) == n = 0 \/ n = 2

\* Variant of InitTable: the two resolutions are recorded in each other's place.
InitTableSwapped(a_klims, a_nk, a_nz) ==
    LET tab == CalculateInterpolationTables(a_klims[1], a_klims[2], a_nk, a_nz)
    IN  [ed |-> tab.ed, le |-> tab.le, ld |-> tab.ld, kt |-> tab.kt, zt |-> tab.zt,
         klims |-> a_klims, nk |-> a_nz, nz |-> a_nk]

\* __init__, lines 60-63: the table and the parameters recorded with it.
InitTable(a_klims, a_nk, a_nz) ==
    LET tab == CalculateInterpolationTables(a_klims[1], a_klims[2], a_nk, a_nz)
    IN  [ed |-> tab.ed, le |-> tab.le, ld |-> tab.ld, kt |-> tab.kt, zt |-> tab.zt,
         klims |-> a_klims, nk |-> a_nk, nz |-> a_nz]

\* __init__, lines 65-69: the evaluators bound for the law.
BoundEvaluators(a_nldc) ==
    IF a_nldc = 0
    THEN [attrs |-> {"_eval_nolerp"},
          nolerp |-> "_eval_nolerp_uniform", lerp |-> ""]
    ELSE [attrs |-> {"_eval_nolerp", "_eval_lerp"},
          nolerp |-> "_eval_nolerp_quadratic", lerp |-> "_eval_lerp_quadratic"]

\* MandelAgol(nldc, nthr, lerp, supersampling, exptime, klims, nk, nz)
Construct(a_nldc, a_lerp, a_ss, a_klims, a_nk, a_nz) ==
    LET tab   == IF a_lerp THEN InitTable(a_klims, a_nk, a_nz) ELSE NoTable
        bound == BoundEvaluators(a_nldc)
        have  == BaseAttrs \cup (IF a_lerp THEN TableAttrs \cup ParamAttrs ELSE {})
                           \cup bound.attrs
        built == Supported(a_nldc)
        \* line 71 reads self._eval_lerp when lerp is set
        done  == built /\ (a_lerp => "_eval_lerp" \in have)
    IN  /\ pc \in {"none", "failed"}
        /\ args' = [nldc |-> a_nldc, lerp |-> a_lerp, supersampling |-> a_ss,
                    klims |-> a_klims, nk |-> a_nk, nz |-> a_nz]
        /\ last' = NoCall
        /\ npt' = 0
        /\ pc' = IF done THEN "ready" ELSE "failed"
        /\ err' = IF ~built THEN "NotImplementedError"
                  ELSE IF ~done THEN "AttributeError" ELSE ""
        /\ attrs' = IF ~built THEN {}
                    ELSE IF ~done THEN have ELSE have \cup {"_eval"}
        /\ nldc' = IF built THEN a_nldc ELSE 0
        /\ lerp' = (built /\ a_lerp)
        /\ ss' = (built /\ SsOn(a_ss))
        /\ nss' = IF built THEN a_ss ELSE 0
        /\ ed' = IF built THEN tab.ed ELSE <<>>
        /\ le' = IF built THEN tab.le ELSE <<>>
        /\ ld' = IF built THEN tab.ld ELSE <<>>
        /\ kt' = IF built THEN tab.kt ELSE <<>>
        /\ zt' = IF built THEN tab.zt ELSE <<>>
        /\ klims' = IF built THEN tab.klims ELSE <<>>
        /\ nk' = IF built THEN tab.nk ELSE 0
        /\ nz' = IF built THEN tab.nz ELSE 0
        /\ eval_nolerp' = IF built THEN bound.nolerp ELSE ""
        /\ eval_lerp' = IF built THEN bound.lerp ELSE ""
        /\ eval' = IF ~done THEN ""
                   ELSE IF a_lerp THEN bound.lerp ELSE bound.nolerp

\* u = np.asarray(u, order='F').T; a one-dimensional u becomes one column:
\* the columns of the result are the bands.
BandColumns(u) == u.c

\* _eval_nolerp_quadratic(z, k, u, c, update)
EvalNolerpQuadratic(z, k, u, update) == EvalQuadMultiband(z, k, BandColumns(u))

\* _eval_nolerp_uniform(z, k, u, c, update)
EvalNolerpUniform(z, k, u, update) == EvalUniform(z, k)

\* Variant of EvalLerpQuadratic: the z knots are passed for the k knots too.
EvalLerpQuadraticKnotsMixed(z, k, u, update) ==
    EvalQuadBilerp(z, k, BandColumns(u), ed, ld, le, zt, zt)

\* _eval_lerp_quadratic(z, k, u, c, update)
EvalLerpQuadratic(z, k, u, update) ==
    EvalQuadBilerp(z, k, BandColumns(u), ed, ld, le, kt, zt)

\* self._eval(z, k, u, c, update)
Eval(z, k, u, update) ==
    IF eval = "_eval_nolerp_uniform" THEN EvalNolerpUniform(z, k, u, update)
    ELSE IF eval = "_eval_nolerp_quadratic" THEN EvalNolerpQuadratic(z, k, u, update)
    ELSE EvalLerpQuadratic(z, k, u, update)

\* __call__, line 109
Returned(flux, u) == IF u.ndim > 1 THEN flux ELSE Ravel(flux)

\* Variant of Aggregate: the reduction is taken whenever the factor is non-zero.
AggregateOnFactor(flux, s_on, n_pt, n_ss) ==
    IF n_ss # 0
    THEN IF CanReshape(flux, n_pt, n_ss)
         THEN [status |-> "ok", flux |-> MeanAxis1(Reshape(flux, n_pt, n_ss))]
         ELSE [status |-> "ValueError", flux |-> NoFlux]
    ELSE [status |-> "ok", flux |-> flux]

\* evaluate, lines 150-153
Aggregate(flux, s_on, n_pt, n_ss) ==
    IF s_on
    THEN IF CanReshape(flux, n_pt, n_ss)
         THEN [status |-> "ok", flux |-> MeanAxis1(Reshape(flux, n_pt, n_ss))]
         ELSE [status |-> "ValueError", flux |-> NoFlux]
    ELSE [status |-> "ok", flux |-> flux]

\* Variant of Call: the last z knot is moved out to the largest sample.
CallStretchingTable(z, k, u, update) ==
    /\ pc = "ready"
    /\ LET flux == Eval(z, k, u, update)
           ret  == Returned(flux, u)
       IN  last' = [op |-> "call", update |-> update, t |-> <<>>, z |-> z, k |-> k,
                    u |-> u, status |-> "ok", raw |-> flux, ret |-> ret,
                    result |-> ret, pars |-> <<klims, nk, nz>>]
    /\ zt' = IF lerp /\ z[Len(z)] > zt[Len(zt)]
             THEN [zt EXCEPT ![Len(zt)] = z[Len(z)]] ELSE zt
    /\ UNCHANGED <<pc, err, args, attrs, nldc, lerp, ss, nss, npt, ed, le, ld, kt,
                   klims, nk, nz, eval_nolerp, eval_lerp, eval>>

\* m(z, k, u, c, b, update)
Call(z, k, u, update) ==
    /\ pc = "ready"
    /\ LET flux == Eval(z, k, u, update)
           ret  == Returned(flux, u)
       IN  last' = [op |-> "call", update |-> update, t |-> <<>>, z |-> z, k |-> k,
                    u |-> u, status |-> "ok", raw |-> flux, ret |-> ret,
                    result |-> ret, pars |-> <<klims, nk, nz>>]
    /\ UNCHANGED <<pc, err, args, attrs, nldc, lerp, ss, nss, npt, ed, le, ld, kt, zt,
                   klims, nk, nz, eval_nolerp, eval_lerp, eval>>

\* m.evaluate(t, k, u, t0, p, a, i, e, w, c, update, lerp_z)
Evaluate(t, t0, k, u, update) ==
    /\ pc = "ready"
    /\ LET z    == CalculateZ(t, t0, ss, nss)
           n_pt == IF ss THEN Len(t) ELSE npt
           flux == Eval(z, k, u, update)
           ret  == Returned(flux, u)
           agg  == Aggregate(ret, ss, n_pt, nss)
       IN  /\ npt' = n_pt
           /\ attrs' = IF ss THEN attrs \cup {"npt"} ELSE attrs
           /\ last' = [op |-> "evaluate", update |-> update, t |-> t, z |-> z,
                       k |-> k, u |-> u, status |-> agg.status, raw |-> flux,
                       ret |-> ret, result |-> agg.flux, pars |-> <<klims, nk, nz>>]
    /\ UNCHANGED <<pc, err, args, nldc, lerp, ss, nss, ed, le, ld, kt, zt,
                   klims, nk, nz, eval_nolerp, eval_lerp, eval>>

\* m.klims = ...; m.nk = ...; m.nz = ...: the caller changes the table
\* parameters recorded on an interpolating model.
SetTableParams(a_klims, a_nk, a_nz) ==
    /\ pc = "ready"
    /\ lerp
    /\ klims' = a_klims
    /\ nk' = a_nk
    /\ nz' = a_nz
    /\ UNCHANGED <<pc, err, args, attrs, nldc, lerp, ss, nss, npt, ed, le, ld, kt, zt,
                   eval_nolerp, eval_lerp, eval, last>>

----------------------------------------------------------------------------
(* Specifications *)

Init ==
    /\ pc = "none"
    /\ err = ""
    /\ args = [nldc |-> 2, lerp |-> FALSE, supersampling |-> 0,
               klims |-> <<1, 3>>, nk |-> 2, nz |-> 3]
    /\ attrs = {}
    /\ nldc = 0 /\ lerp = FALSE /\ ss = FALSE /\ nss = 0 /\ npt = 0
    /\ ed = <<>> /\ le = <<>> /\ ld = <<>> /\ kt = <<>> /\ zt = <<>>
    /\ klims = <<>> /\ nk = 0 /\ nz = 0
    /\ eval_nolerp = "" /\ eval_lerp = "" /\ eval = ""
    /\ last = NoCall

DoConstruct ==
    \E a_nldc \in NldcChoices, a_lerp \in BOOLEAN, a_ss \in SupersamplingChoices,
       p \in TableChoices :
        Construct(a_nldc, a_lerp, a_ss, p.klims, p.nk, p.nz)

DoCall ==
    \E z \in ZInputs, k \in KChoices, u \in UChoices, update \in BOOLEAN :
        Call(z, k, u, update)

DoEvaluate ==
    \E t \in TInputs, t0 \in T0Choices, k \in KChoices, u \in UChoices,
       update \in BOOLEAN :
        Evaluate(t, t0, k, u, update)

DoSetTableParams ==
    \E p \in TableChoices : SetTableParams(p.klims, p.nk, p.nz)

\* Construction, evaluation and assignments to the table parameters.
Next == DoConstruct \/ DoCall \/ DoEvaluate \/ DoSetTableParams

Spec == Init /\ [][Next]_vars

\* Construction and evaluation calls only.
NextCalls == DoConstruct \/ DoCall \/ DoEvaluate

SpecCalls == Init /\ [][NextCalls]_vars

----------------------------------------------------------------------------
(* Properties *)

\* The table held by the instance, and the table a build makes for the
\* parameters pars = <<klims, nk, nz>>.
TableStored == [ed |-> ed, le |-> le, ld |-> ld, kt |-> kt, zt |-> zt]
TablesFor(pars) == CalculateInterpolationTables(pars[1][1], pars[1][2], pars[2], pars[3])

\* The latest call went through the bilinear evaluator.
Lerped == last.op # "none" /\ eval = "_eval_lerp_quadratic"

\* Number of observations the latest call was given.
NObs == IF last.op = "evaluate" THEN Len(last.t) ELSE Len(last.z)

\* C1: an interpolated evaluation made with update=True rebuilds the table
\* from the table parameters the model holds at the call, so that after the
\* call the stored table is the one a build makes for those parameters.
C1_UpdateRebuilds ==
    (Lerped /\ last.update) => TableStored = TablesFor(last.pars)

\* C2: an interpolated evaluation never returns a flux read from grids
\* that were built for other parameters than the ones the model holds:
\* whenever such a call returns normally, the grids are those of the
\* parameters held at the call.
C2_NoStaleTable ==
    (Lerped /\ last.status = "ok") =>
        /\ TableAttrs \subseteq attrs
        /\ TableStored = TablesFor(last.pars)

\* C3: on an interpolating model that is only constructed and evaluated,
\* the stored grids and knots are exactly the build for the recorded
\* (klims, nk, nz).
C3_TableMatchesParams ==
    (pc = "ready" /\ lerp) =>
        /\ TableAttrs \cup ParamAttrs \subseteq attrs
        /\ TableStored = TablesFor(<<klims, nk, nz>>)

C3_Witness ==
    /\ pc = "ready" /\ lerp
    /\ last.op = "evaluate" /\ ~last.update /\ last.status = "ok"
    /\ klims = <<2, 4>> /\ nk = 3

\* The stored table is a complete build, or the instance has no table.
WholeTable ==
    /\ TableAttrs \subseteq attrs
    /\ \E p \in TableChoices : TableStored = TablesFor(<<p.klims, p.nk, p.nz>>)
EmptyTable ==
    /\ TableAttrs \cap attrs = {}
    /\ TableStored = [ed |-> <<>>, le |-> <<>>, ld |-> <<>>, kt |-> <<>>, zt |-> <<>>]

\* C4: an evaluation step (a step of a constructed instance that records a
\* call) leaves the grids and knots unchanged and, on an interpolating
\* model, finds them completely built; whenever the table changes, it
\* changes to a complete build (or to no table at all).
C4_EvaluationKeepsTable ==
    [][ /\ (pc = "ready" /\ last' # last) =>
              (table' = table /\ (lerp => WholeTable))
        /\ (table' # table) => (WholeTable' \/ EmptyTable') ]_vars

C4_Witness ==
    /\ Lerped /\ last.op = "call" /\ last.update
    /\ WholeTable

RECURSIVE NumSum(_, _, _)
NumSum(series, from, to) ==
    IF from > to THEN 0 ELSE series[from][1] + NumSum(series, from + 1, to)
BlockMean(series, j, n) == Frac(NumSum(series, (j - 1) * n + 1, j * n), n)

\* The evaluator returned one flux value per (sub-)sample, each a whole
\* number of flux units.
OnePerSample ==
    /\ Len(Flat(last.raw)) = Len(last.z)
    /\ \A i \in 1 .. Len(last.z) : Flat(last.raw)[i][2] = 1

C7_DocumentedShape ==
    (last.op # "none" /\ nldc = 2) =>
        /\ last.status = "ok"
        /\ (last.u.ndim <= 1) =>
              (last.result.ndim = 1 /\ Len(last.result.v) = NObs)
        /\ (last.u.ndim > 1) =>
              /\ last.result.ndim = 2
              /\ Len(last.result.v) = NObs
              /\ \A j \in 1 .. Len(last.result.v) :
                    Len(last.result.v[j]) = Len(last.u.c)

\* The sample (z, k) lies within the stored table's range.
OnGrid(z, k) == kt[1] <= k /\ k <= kt[Len(kt)] /\ 0 <= z /\ z <= zt[Len(zt)]

\* C8: on the interpolated path every sample whose k or z lies outside the
\* table's range gets the exact quadratic flux, and the evaluator returns
\* a value for every sample and band (nothing is raised).
C8_OutOfRangeIsExact ==
    Lerped =>
        /\ last.raw.ndim = 2
        /\ Len(last.raw.v) = Len(last.z)
        /\ \A j \in 1 .. Len(last.z) :
              /\ Len(last.raw.v[j]) = Len(last.u.c)
              /\ ~OnGrid(last.z[j], last.k) =>
                    \A b \in 1 .. Len(last.u.c) :
                        last.raw.v[j][b] = <<ExactQuad(last.z[j], last.k, last.u.c[b]), 1>>

C8_Witness ==
    /\ Lerped
    /\ \E j \in 1 .. Len(last.z) : ~OnGrid(last.z[j], last.k)
    /\ \E j \in 1 .. Len(last.z) :
          /\ OnGrid(last.z[j], last.k)
          /\ last.raw.v[j][1] # <<ExactQuad(last.z[j], last.k, last.u.c[1]), 1>>

\* C9: with a supersampling factor of at most one, evaluate neither
\* expands nor reduces: there is one projected distance per input time and
\* the returned flux is the flux the call on those distances returned.
C9_NoSupersamplingIsIdentity ==
    (last.op = "evaluate" /\ args.supersampling <= 1) =>
        /\ last.status = "ok"
        /\ Len(last.z) = Len(last.t)
        /\ last.result = last.ret
        /\ Len(last.result.v) = Len(last.t)

C9_Witness ==
    /\ last.op = "evaluate" /\ args.supersampling = 1 /\ last.status = "ok"
    /\ last.u.ndim = 2 /\ Len(last.u.c) = 2
    /\ last.result.ndim = 2

\* C10: every construction with a supported law completes with the
\* evaluator fixed by (nldc, lerp): exact uniform, exact quadratic or
\* bilinear quadratic, and never the table for the uniform law.
C10_EvaluatorDefined ==
    (pc # "none" /\ args.nldc \in {0, 2}) =>
        /\ pc = "ready"
        /\ "_eval" \in attrs
        /\ (~args.lerp /\ args.nldc = 0) => eval = "_eval_nolerp_uniform"
        /\ (~args.lerp /\ args.nldc = 2) => eval = "_eval_nolerp_quadratic"
        /\ (args.lerp /\ args.nldc = 2) => eval = "_eval_lerp_quadratic"
        /\ (args.nldc = 0) => eval # "_eval_lerp_quadratic"

====
